---- MODULE Spec2Model ----
(***************************************************************************)
(* A model of win-ctx (acdvs/winctx-rs): context-menu entries kept as keys *)
(* of the Windows registry under HKEY_CLASSES_ROOT.                        *)
(*                                                                         *)
(* The registry is a tree of keys; a key is named by the sequence of the   *)
(* key names on the way from the hive's root, and holds named string       *)
(* values.  An entry handle (CtxEntry) is a name path plus an activation   *)
(* type; every operation resolves the handle's registry path again.  A     *)
(* CtxEntry keeps nothing else (both fields are public and no registry     *)
(* handle is cached), so the state of the program is the registry, and an  *)
(* operation takes the entry it is called on as an input.  The operations  *)
(* that only read are operators over the registry.                         *)
(***************************************************************************)
EXTENDS Naturals, Sequences, FiniteSets, TLC

VARIABLES
    reg,      \* the registry under HKCR: key path -> (value name -> data)
    last,     \* the last mutating API call: operation and result
    hkcu,     \* the registry under HKCU, where the old-menu key is
    calls,    \* concurrent calls of new: each caller's position and result
    scan,     \* a call of get_all_of_type in progress
    resolved  \* a call of get_full_path: its arguments and the string returned

vars == <<reg, last, hkcu, calls, scan, resolved>>

----------------------------------------------------------------------------
(* Bounds of the model *)

\* most entry keys the registry holds at once (and so the longest name path)
MaxEntries == 2
\* callers that create the same entry at the same time
NumCallers == 2
\* the longest name path given to get_full_path
MaxNames == 2

\* entry names; "shell" is also the name of the container key
Names == {"a", "shell"}
\* attribute strings (commands, icon paths)
Strings == {"s1", "s2"}

----------------------------------------------------------------------------
(* Values of the API *)

None == <<>>
Some(x) == <<x>>

Ok(v) == [tag |-> "Ok", val |-> v]
Err(kind) == [tag |-> "Err", val |-> <<kind>>]
\* a panic (unwrap on None or Err) ends the process
Panic == [tag |-> "Panic", val |-> <<>>]
Unit == <<>>

NotFound == "NotFound"
AlreadyExists == "AlreadyExists"
PermissionDenied == "PermissionDenied"
InvalidInput == "InvalidInput"

File(ext) == [tag |-> "File", ext |-> ext]
Folder == [tag |-> "Folder", ext |-> ""]
Background == [tag |-> "Background", ext |-> ""]
ActivationType == {File("*"), File(".rs"), Folder, Background}

Top == "MenuPosition::Top"
Bottom == "MenuPosition::Bottom"
MenuPosition == {Top, Bottom}

Before == "Separator::Before"
After == "Separator::After"
Both == "Separator::Both"
Separator == {Before, After, Both}

CtxEntry(path, entry_type) == [path |-> path, entry_type |-> entry_type]
\* an empty slot
NoEntry == [path |-> <<>>, entry_type |-> [tag |-> "", ext |-> ""]]

EntryOptions(command, icon, position, separator, extended) ==
    [command |-> command, icon |-> icon, position |-> position,
     separator |-> separator, extended |-> extended]
DefaultOptions == EntryOptions(None, None, None, None, FALSE)

----------------------------------------------------------------------------
(* The registry (winreg over the Win32 registry API) *)

\* value data of a value that is not there
Absent == "<absent>"
ValueNames ==
    {"", "Icon", "Position", "Extended", "SeparatorBefore", "SeparatorAfter",
     "Subcommands"}
NoValues == [vn \in ValueNames |-> Absent]

\* the order in which a key's subkeys are enumerated
SegOrder == <<"a", "b", "command", "shell">>

IsPrefix(p, q) == Len(p) <= Len(q) /\ SubSeq(q, 1, Len(p)) = p
Prefixes(p) == {SubSeq(p, 1, i) : i \in 0..Len(p)}

KeyExists(r, p) == p \in DOMAIN r
SubkeyNames(r, p) ==
    {q[Len(q)] : q \in {k \in DOMAIN r : Len(k) = Len(p) + 1 /\ IsPrefix(p, k)}}

\* RegCreateKeyEx: creates the key and every missing key on the way to it
RegCreateKey(r, p) ==
    [q \in DOMAIN r \cup Prefixes(p) |-> IF q \in DOMAIN r THEN r[q] ELSE NoValues]
\* RegDeleteTree / RegDeleteKey: the key and everything below it
RegDeleteTree(r, p) == [q \in {k \in DOMAIN r : ~IsPrefix(p, k)} |-> r[q]]
RegSetValue(r, p, vn, v) == [r EXCEPT ![p][vn] = v]
RegDeleteValue(r, p, vn) == [r EXCEPT ![p][vn] = Absent]
HasValue(r, p, vn) == r[p][vn] # Absent
\* where RegRenameKey moves key k when the key `from` becomes the key `to`
MovedKey(k, from, to) ==
    IF IsPrefix(from, k) THEN to \o SubSeq(k, Len(from) + 1, Len(k)) ELSE k
\* RegRenameKey: the subkey old of key p is named new from now on, and
\* everything below it moves with it (there is no key p\new before)
RegRenameKey(r, p, old, new) ==
    LET from == Append(p, old)
        to == Append(p, new)
    IN  [q \in {MovedKey(k, from, to) : k \in DOMAIN r} |->
            r[CHOOSE k \in DOMAIN r : MovedKey(k, from, to) = q]]

RECURSIVE FilterSeq(_, _)
FilterSeq(s, set) ==
    IF s = <<>> THEN <<>>
    ELSE (IF Head(s) \in set THEN <<Head(s)>> ELSE <<>>) \o FilterSeq(Tail(s), set)
\* RegKey::enum_keys: the names of the key's immediate subkeys
EnumKeys(r, p) == FilterSeq(SegOrder, SubkeyNames(r, p))

----------------------------------------------------------------------------
(* path.rs *)

get_base_path(entry_type) ==
    CASE entry_type.tag = "File" -> <<entry_type.ext>>
      [] entry_type.tag = "Folder" -> <<"Directory">>
      [] entry_type.tag = "Background" -> <<"Directory", "Background">>

RECURSIVE PushNames(_, _)
\* the loop of get_full_path and of CtxEntry::get: "\shell\{entry_name}" per name
PushNames(path, name_path) ==
    IF name_path = <<>> THEN path
    ELSE PushNames(path \o <<"shell", Head(name_path)>>, Tail(name_path))

get_full_path(entry_type, name_path) ==
    IF Len(name_path) = 0
    THEN get_base_path(entry_type) \o <<"shell">>
    ELSE PushNames(get_base_path(entry_type), name_path)

----------------------------------------------------------------------------
(* path.rs, as the strings the functions return.  The registry reads such  *)
(* a string as the key names between its backslashes, which is what        *)
(* get_base_path and get_full_path above give.                             *)

get_base_path_str(entry_type) ==
    IF entry_type.tag = "File" THEN entry_type.ext
    ELSE IF entry_type.tag = "Folder" THEN "Directory"
    ELSE "Directory\\Background"

RECURSIVE PushNamesStr(_, _)
\* the loop: path = format!("{path}\\shell\\{entry_name}")
PushNamesStr(path_, name_path) ==
    IF name_path = <<>> THEN path_
    ELSE PushNamesStr(path_ \o "\\shell\\" \o Head(name_path), Tail(name_path))

\* get_full_path without the shell key between the names
get_full_path_str_flat(entry_type, name_path) ==
    LET Flat[i \in 0..Len(name_path)] ==
            IF i = 0 THEN get_base_path_str(entry_type)
            ELSE Flat[i - 1] \o "\\" \o name_path[i]
    IN  IF Len(name_path) = 0 THEN get_base_path_str(entry_type) \o "\\shell"
        ELSE Flat[Len(name_path)]

\* get_full_path without the case of the empty name path
get_full_path_str_no_empty(entry_type, name_path) ==
    PushNamesStr(get_base_path_str(entry_type), name_path)

get_full_path_str(entry_type, name_path) ==
    IF Len(name_path) = 0
    THEN get_base_path_str(entry_type) \o "\\shell"
    ELSE PushNamesStr(get_base_path_str(entry_type), name_path)

----------------------------------------------------------------------------
(* entry.rs: opening the key of an entry.  `fail` says that the registry   *)
(* refuses the access (KEY_ALL_ACCESS without the privileges for it).      *)

get_key(r, p, fail) ==
    IF ~KeyExists(r, p) THEN Err(NotFound)
    ELSE IF fail THEN Err(PermissionDenied)
    ELSE Ok(p)

path(h) == get_full_path(h.entry_type, h.path)
key(r, h, fail) == get_key(r, path(h), fail)

\* the result of an operation that may change the registry
Done(r, res) == [reg |-> r, res |-> res]

\* safe_delete_value that returns the NotFound of delete_value
safe_delete_value_strict(r, h, value, fail) ==
    LET k == key(r, h, fail) IN
    IF k.tag = "Err" THEN Done(r, k)
    ELSE IF ~HasValue(r, k.val, value) THEN Done(r, Err(NotFound))
    ELSE Done(RegDeleteValue(r, k.val, value), Ok(Unit))

safe_delete_value(r, h, value, fail) ==
    LET k == key(r, h, fail) IN
    IF k.tag = "Err" THEN Done(r, k)
    ELSE Done(RegDeleteValue(r, k.val, value), Ok(Unit))

----------------------------------------------------------------------------
(* entry.rs: the attribute getters *)

name(r, h, fail) ==
    LET k == key(r, h, fail) IN
    IF k.tag = "Err" THEN k ELSE Ok(h.path[Len(h.path)])

command(r, h, fail) ==
    LET k == get_key(r, path(h) \o <<"command">>, fail) IN
    IF k.tag = "Err" THEN k
    ELSE IF HasValue(r, k.val, "") THEN Ok(Some(r[k.val][""])) ELSE Ok(None)

icon(r, h, fail) ==
    LET k == key(r, h, fail) IN
    IF k.tag = "Err" THEN k
    ELSE IF HasValue(r, k.val, "Icon") THEN Ok(Some(r[k.val]["Icon"])) ELSE Ok(None)

position(r, h, fail) ==
    LET k == key(r, h, fail) IN
    IF k.tag = "Err" THEN k
    ELSE IF r[k.val]["Position"] = "Top" THEN Ok(Some(Top))
    ELSE IF r[k.val]["Position"] = "Bottom" THEN Ok(Some(Bottom))
    ELSE Ok(None)

extended(r, h, fail) ==
    LET k == key(r, h, fail) IN
    IF k.tag = "Err" THEN k ELSE Ok(HasValue(r, k.val, "Extended"))

separator(r, h, fail) ==
    LET k == key(r, h, fail) IN
    IF k.tag = "Err" THEN k
    ELSE LET sep_before == HasValue(r, k.val, "SeparatorBefore")
             sep_after == HasValue(r, k.val, "SeparatorAfter")
         IN  IF sep_before /\ sep_after THEN Ok(Some(Both))
             ELSE IF sep_before THEN Ok(Some(Before))
             ELSE IF sep_after THEN Ok(Some(After))
             ELSE Ok(None)

----------------------------------------------------------------------------
(* entry.rs: the attribute setters *)

\* set_command that takes the Subcommands value away as well
set_command_drops_subcommands(r, h, c, fail) ==
    LET k == key(r, h, fail) IN
    IF k.tag = "Err" THEN Done(r, k)
    ELSE LET command_key == k.val \o <<"command">>
             r0 == RegDeleteValue(r, k.val, "Subcommands")
         IN  IF c # None
             THEN Done(RegSetValue(RegCreateKey(r0, command_key), command_key, "", c[1]),
                       Ok(Unit))
             ELSE IF ~KeyExists(r, command_key) THEN Done(r0, Ok(Unit))
             ELSE IF SubkeyNames(r, command_key) # {} THEN Done(r, Err(PermissionDenied))
             ELSE Done(RegDeleteTree(r0, command_key), Ok(Unit))

set_command(r, h, c, fail) ==
    LET k == key(r, h, fail) IN
    IF k.tag = "Err" THEN Done(r, k)
    ELSE LET command_key == k.val \o <<"command">> IN
         IF c # None
         THEN Done(RegSetValue(RegCreateKey(r, command_key), command_key, "", c[1]),
                   Ok(Unit))
         ELSE IF ~KeyExists(r, command_key) THEN Done(r, Ok(Unit))
         \* RegDeleteKey refuses a key that has subkeys
         ELSE IF SubkeyNames(r, command_key) # {} THEN Done(r, Err(PermissionDenied))
         ELSE Done(RegDeleteTree(r, command_key), Ok(Unit))

set_icon(r, h, i, fail) ==
    LET k == key(r, h, fail) IN
    IF k.tag = "Err" THEN Done(r, k)
    ELSE IF i # None THEN Done(RegSetValue(r, k.val, "Icon", i[1]), Ok(Unit))
    ELSE safe_delete_value(r, h, "Icon", fail)

set_position(r, h, pos, fail) ==
    IF pos = None THEN safe_delete_value(r, h, "Position", fail)
    ELSE LET position_str == IF pos = Some(Top) THEN "Top"
                             ELSE IF pos = Some(Bottom) THEN "Bottom" ELSE ""
             k == key(r, h, fail)
         IN  IF k.tag = "Err" THEN Done(r, k)
             ELSE Done(RegSetValue(r, k.val, "Position", position_str), Ok(Unit))

set_extended(r, h, ext, fail) ==
    IF ext
    THEN LET k == key(r, h, fail) IN
         IF k.tag = "Err" THEN Done(r, k)
         ELSE Done(RegSetValue(r, k.val, "Extended", ""), Ok(Unit))
    ELSE safe_delete_value(r, h, "Extended", fail)

\* set_separator that leaves the other marker in place
set_separator_keeps_other(r, h, sep, fail) ==
    LET k == key(r, h, fail) IN
    IF k.tag = "Err" THEN Done(r, k)
    ELSE IF sep = Some(Before)
    THEN Done(RegSetValue(r, k.val, "SeparatorBefore", ""), Ok(Unit))
    ELSE IF sep = Some(After)
    THEN Done(RegSetValue(r, k.val, "SeparatorAfter", ""), Ok(Unit))
    ELSE IF sep = Some(Both)
    THEN Done(RegSetValue(RegSetValue(r, k.val, "SeparatorBefore", ""), k.val,
                          "SeparatorAfter", ""), Ok(Unit))
    ELSE LET d == safe_delete_value(r, h, "SeparatorBefore", fail) IN
         IF d.res.tag = "Err" THEN d
         ELSE safe_delete_value(d.reg, h, "SeparatorAfter", fail)

set_separator(r, h, sep, fail) ==
    LET k == key(r, h, fail) IN
    IF k.tag = "Err" THEN Done(r, k)
    ELSE IF sep = Some(Before)
    THEN safe_delete_value(RegSetValue(r, k.val, "SeparatorBefore", ""), h,
                           "SeparatorAfter", fail)
    ELSE IF sep = Some(After)
    THEN safe_delete_value(RegSetValue(r, k.val, "SeparatorAfter", ""), h,
                           "SeparatorBefore", fail)
    ELSE IF sep = Some(Both)
    THEN Done(RegSetValue(RegSetValue(r, k.val, "SeparatorBefore", ""), k.val,
                          "SeparatorAfter", ""), Ok(Unit))
    ELSE LET d == safe_delete_value(r, h, "SeparatorBefore", fail) IN
         IF d.res.tag = "Err" THEN d
         ELSE safe_delete_value(d.reg, h, "SeparatorAfter", fail)

----------------------------------------------------------------------------
(* entry.rs: rename.  The entry is `&mut self`: the call returns the       *)
(* registry, its result and the entry as it is afterwards.  failAt numbers *)
(* the registry call that is refused: 1 the open of the entry's key in     *)
(* name(), 2 the open of the parent key, 3 rename_subkey.                  *)

Renamed(r, res, self) == [reg |-> r, res |-> res, self |-> self]

\* RegKey::rename_subkey on the key p
rename_subkey(r, p, old_name, new_name, fail) ==
    IF ~KeyExists(r, Append(p, old_name)) THEN Done(r, Err(NotFound))
    ELSE IF fail THEN Done(r, Err(PermissionDenied))
    \* RegRenameKey answers ERROR_ACCESS_DENIED when the new name is taken
    ELSE IF KeyExists(r, Append(p, new_name)) THEN Done(r, Err(PermissionDenied))
    ELSE Done(RegRenameKey(r, p, old_name, new_name), Ok(Unit))

\* rename that does not reject the empty name
rename_accepts_empty(r, h, new_name, failAt) ==
    LET old_name == name(r, h, failAt = 1) IN
    IF old_name.tag = "Err" THEN Renamed(r, old_name, h)
    ELSE LET parent_path_str ==
                 get_full_path(h.entry_type, SubSeq(h.path, 1, Len(h.path) - 1))
             parent_key == get_key(r, parent_path_str, failAt = 2)
         IN  IF parent_key.tag = "Err" THEN Renamed(r, parent_key, h)
             ELSE LET res == rename_subkey(r, parent_key.val, old_name.val, new_name,
                                           failAt = 3)
                  IN  Renamed(res.reg, res.res,
                              CtxEntry([h.path EXCEPT ![Len(h.path)] = new_name],
                                       h.entry_type))

\* rename that keeps the old name in the entry when rename_subkey fails
rename_keeps_on_failure(r, h, new_name, failAt) ==
    LET d == rename_accepts_empty(r, h, new_name, failAt) IN
    IF new_name = "" THEN Renamed(r, Err(InvalidInput), h)
    ELSE IF d.res.tag = "Err" THEN Renamed(d.reg, d.res, h)
    ELSE d

rename(r, h, new_name, failAt) ==
    IF new_name = "" THEN Renamed(r, Err(InvalidInput), h)
    ELSE LET old_name == name(r, h, failAt = 1) IN
         IF old_name.tag = "Err" THEN Renamed(r, old_name, h)
         ELSE LET parent_name_path == SubSeq(h.path, 1, Len(h.path) - 1)
                  parent_path_str == get_full_path(h.entry_type, parent_name_path)
                  parent_key == get_key(r, parent_path_str, failAt = 2)
              IN  IF parent_key.tag = "Err" THEN Renamed(r, parent_key, h)
                  ELSE LET res == rename_subkey(r, parent_key.val, old_name.val,
                                                new_name, failAt = 3)
                       IN  Renamed(res.reg, res.res,
                                   CtxEntry([h.path EXCEPT ![Len(h.path)] = new_name],
                                            h.entry_type))

----------------------------------------------------------------------------
(* entry.rs: lookup and navigation *)

\* get that answers an entry for every error of the open, NotFound too
get_any_error(r, name_path, entry_type, fail) ==
    IF Len(name_path) = 0 THEN None
    ELSE Some(CtxEntry(name_path, entry_type))

get(r, name_path, entry_type, fail) ==
    IF Len(name_path) = 0 THEN None
    ELSE LET str_path == PushNames(get_base_path(entry_type), name_path)
             k == get_key(r, str_path, fail)
         IN  IF k.tag = "Err" /\ k.val = <<NotFound>> THEN None
             ELSE Some(CtxEntry(name_path, entry_type))

\* parent that looks up the entry's own name path
parent_of_self(r, h, fail) ==
    IF Len(h.path) = 0 THEN None
    ELSE get(r, h.path, h.entry_type, fail)

parent(r, h, fail) ==
    IF Len(h.path) <= 1 THEN None
    ELSE get(r, SubSeq(h.path, 1, Len(h.path) - 1), h.entry_type, fail)

child(r, h, nm, fail) ==
    LET name_path == Append(h.path, nm)
        k == get_key(r, get_full_path(h.entry_type, name_path), fail)
    IN  IF k.tag = "Ok" THEN Ok(Some(CtxEntry(name_path, h.entry_type)))
        ELSE IF k.val = <<NotFound>> THEN Ok(None)
        ELSE k

RECURSIVE ChildrenLoop(_, _, _, _, _)
\* the loop of children(): child(name).unwrap().unwrap() for each enumerated name
ChildrenLoop(r, h, names, fail, acc) ==
    IF names = <<>> THEN Ok(acc)
    ELSE LET c == child(r, h, Head(names), fail) IN
         IF c.tag = "Err" \/ c.val = None THEN Panic
         ELSE ChildrenLoop(r, h, Tail(names), fail, Append(acc, c.val[1]))

children(r, h, fail) ==
    LET k == key(r, h, fail) IN
    IF k.tag = "Err" THEN k
    ELSE ChildrenLoop(r, h, EnumKeys(r, k.val), fail, <<>>)

----------------------------------------------------------------------------
(* entry.rs: creation and deletion.  failAt numbers the registry call of   *)
(* create that is refused: 1 create_subkey, 2 set_command, 3 set_icon,     *)
(* 4 set_position, 5 set_extended; 0 for none.                             *)

\* lines 126-136 of create: the initial attributes, in order, up to the first error
InitialAttributes(r, entry, opts, failAt) ==
    LET c == set_command(r, entry, opts.command, failAt = 2)
        i == set_icon(c.reg, entry, opts.icon, failAt = 3)
        p == set_position(i.reg, entry, opts.position, failAt = 4)
        e == set_extended(p.reg, entry, opts.extended, failAt = 5)
    IN  IF c.res.tag = "Err" THEN c
        ELSE IF i.res.tag = "Err" THEN i
        ELSE IF p.res.tag = "Err" THEN p
        ELSE IF e.res.tag = "Err" THEN e
        ELSE Done(e.reg, Ok(entry))

\* create that does not look at the disposition of create_subkey
create_ignores_disposition(r, name_path, entry_type, opts, failAt) ==
    IF failAt = 1 THEN Done(r, Err(PermissionDenied))
    ELSE InitialAttributes(RegCreateKey(r, get_full_path(entry_type, name_path)),
                           CtxEntry(name_path, entry_type), opts, failAt)

\* create that takes the key away again when a setter fails
create_rolls_back(r, name_path, entry_type, opts, failAt) ==
    LET path_str == get_full_path(entry_type, name_path) IN
    IF failAt = 1 THEN Done(r, Err(PermissionDenied))
    ELSE IF KeyExists(r, path_str) THEN Done(r, Err(AlreadyExists))
    ELSE LET d == InitialAttributes(RegCreateKey(r, path_str),
                                    CtxEntry(name_path, entry_type), opts, failAt)
         IN  IF d.res.tag = "Err" THEN Done(r, d.res) ELSE d

create(r, name_path, entry_type, opts, failAt) ==
    LET path_str == get_full_path(entry_type, name_path) IN
    IF failAt = 1 THEN Done(r, Err(PermissionDenied))
    ELSE IF KeyExists(r, path_str) THEN Done(r, Err(AlreadyExists))
    ELSE InitialAttributes(RegCreateKey(r, path_str), CtxEntry(name_path, entry_type),
                           opts, failAt)

new_with_options(r, nm, entry_type, opts, failAt) ==
    create(r, <<nm>>, entry_type, opts, failAt)

\* new that asks for an extended entry
new_extended(r, nm, entry_type, failAt) ==
    new_with_options(r, nm, entry_type, EntryOptions(None, None, None, None, TRUE),
                     failAt)

new(r, nm, entry_type, failAt) ==
    new_with_options(r, nm, entry_type, EntryOptions(None, None, None, None, FALSE),
                     failAt)

\* new_child_with_options that does not open the key of the entry first
new_child_unchecked(r, h, nm, opts, fail, failAt) ==
    create(r, Append(h.path, nm), h.entry_type, opts, failAt)

\* new_child_with_options that does not write the Subcommands value
new_child_unmarked(r, h, nm, opts, fail, failAt) ==
    LET k == key(r, h, fail) IN
    IF k.tag = "Err" THEN Done(r, k)
    ELSE create(r, Append(h.path, nm), h.entry_type, opts, failAt)

new_child_with_options(r, h, nm, opts, fail, failAt) ==
    LET k == key(r, h, fail) IN
    IF k.tag = "Err" THEN Done(r, k)
    ELSE create(RegSetValue(r, k.val, "Subcommands", ""), Append(h.path, nm),
                h.entry_type, opts, failAt)

new_child(r, h, nm, fail, failAt) ==
    new_child_with_options(r, h, nm, EntryOptions(None, None, None, None, FALSE),
                           fail, failAt)

\* delete that removes the key and leaves what is below it
delete_key_only(r, h, fail) ==
    IF ~KeyExists(r, path(h)) THEN Done(r, Err(NotFound))
    ELSE IF fail THEN Done(r, Err(PermissionDenied))
    ELSE Done([q \in DOMAIN r \ {path(h)} |-> r[q]], Ok(Unit))

\* delete that removes the container the entry is in
delete_container(r, h, fail) ==
    IF ~KeyExists(r, path(h)) THEN Done(r, Err(NotFound))
    ELSE IF fail THEN Done(r, Err(PermissionDenied))
    ELSE Done(RegDeleteTree(r, SubSeq(path(h), 1, Len(path(h)) - 1)), Ok(Unit))

delete(r, h, fail) ==
    IF ~KeyExists(r, path(h)) THEN Done(r, Err(NotFound))
    ELSE IF fail THEN Done(r, Err(PermissionDenied))
    ELSE Done(RegDeleteTree(r, path(h)), Ok(Unit))

----------------------------------------------------------------------------
(* utils.rs: the old context menu, a key under HKCU.  failAt numbers the   *)
(* registry call that is refused: 1 create_subkey or delete_subkey_all,    *)
(* 2 set_value.                                                            *)

CTX_MENU_PATH ==
    <<"Software", "Classes", "CLSID", "{86ca1aa0-34aa-4e8b-a509-50c905bae2a2}">>

\* toggle_old_menu that reports a key that is not there when disabling
toggle_old_menu_strict(r, enable, failAt) ==
    IF enable
    THEN LET path_ == CTX_MENU_PATH \o <<"InprocServer32">> IN
         IF failAt = 1 THEN Done(r, Panic)
         ELSE IF failAt = 2 THEN Done(RegCreateKey(r, path_), Err(PermissionDenied))
         ELSE Done(RegSetValue(RegCreateKey(r, path_), path_, "", ""), Ok(Unit))
    ELSE IF ~KeyExists(r, CTX_MENU_PATH) THEN Done(r, Err(NotFound))
    ELSE IF failAt # 0 THEN Done(r, Err(PermissionDenied))
    ELSE Done(RegDeleteTree(r, CTX_MENU_PATH), Ok(Unit))

toggle_old_menu(r, enable, failAt) ==
    IF enable
    THEN LET path_ == CTX_MENU_PATH \o <<"InprocServer32">> IN
         \* create_subkey(path).unwrap()
         IF failAt = 1 THEN Done(r, Panic)
         ELSE IF failAt = 2 THEN Done(RegCreateKey(r, path_), Err(PermissionDenied))
         ELSE Done(RegSetValue(RegCreateKey(r, path_), path_, "", ""), Ok(Unit))
    \* NotFound is answered Ok
    ELSE IF ~KeyExists(r, CTX_MENU_PATH) THEN Done(r, Ok(Unit))
    ELSE IF failAt # 0 THEN Done(r, Err(PermissionDenied))
    ELSE Done(RegDeleteTree(r, CTX_MENU_PATH), Ok(Unit))

----------------------------------------------------------------------------
(* The state machine: callers of the API changing the registry *)

\* the keys of entries of any activation type
IsEntryKey(k) ==
    \E t \in ActivationType :
        LET b == get_base_path(t) IN
        /\ IsPrefix(b, k)
        /\ Len(k) > Len(b)
        /\ (Len(k) - Len(b)) % 2 = 0
        /\ \A i \in 1..(Len(k) - Len(b)) : i % 2 = 1 => k[Len(b) + i] = "shell"
EntryKeys(r) == {k \in DOMAIN r : IsEntryKey(k)}
EntryCount(r) == Cardinality(EntryKeys(r))

\* the keys every Windows installation has; ".rs" has no key of its own
InitKeys ==
    {<<>>, <<"*">>, <<"*", "shell">>, <<"Directory">>, <<"Directory", "shell">>,
     <<"Directory", "Background">>, <<"Directory", "Background", "shell">>}

\* before: the number of entry keys when the call was made
Call(op, res, before) == [op |-> op, res |-> res, before |-> before]

\* the keys of HKCU that are there before the old menu is ever enabled
HkcuKeys ==
    {<<>>, <<"Software">>, <<"Software", "Classes">>, <<"Software", "Classes", "CLSID">>}

\* nobody is in a call of new, of get_all_of_type or of get_full_path
NoCalls == <<>>
NoScan == [pc |-> "idle"]
NoPath == [pc |-> "idle"]

Init ==
    /\ reg = [k \in InitKeys |-> NoValues]
    /\ last = Call("init", Ok(Unit), 0)
    /\ hkcu = [k \in HkcuKeys |-> NoValues]
    /\ calls = NoCalls
    /\ scan = NoScan
    /\ resolved = NoPath

\* what a mutating call leaves behind
Called(op, d) ==
    /\ reg' = d.reg
    /\ last' = Call(op, d.res, EntryCount(reg))
    /\ UNCHANGED <<hkcu, calls, scan, resolved>>

New(nm, t, failAt) ==
    Called("new", new(reg, nm, t, failAt))

NewWithOptions(nm, t, opts, failAt) ==
    Called("new_with_options", new_with_options(reg, nm, t, opts, failAt))

NewChild(h, nm, fail, failAt) ==
    Called("new_child", new_child(reg, h, nm, fail, failAt))

NewChildWithOptions(h, nm, opts, fail, failAt) ==
    Called("new_child_with_options",
           new_child_with_options(reg, h, nm, opts, fail, failAt))

Delete(h, fail) == Called("delete", delete(reg, h, fail))

SetCommand(h, c, fail) == Called("set_command", set_command(reg, h, c, fail))
SetIcon(h, i, fail) == Called("set_icon", set_icon(reg, h, i, fail))
SetPosition(h, p, fail) == Called("set_position", set_position(reg, h, p, fail))
SetExtended(h, e, fail) == Called("set_extended", set_extended(reg, h, e, fail))
SetSeparator(h, sep, fail) ==
    Called("set_separator", set_separator(reg, h, sep, fail))

\* rename changes the caller's entry as well: self is the entry afterwards
Rename(h, new_name, failAt) ==
    LET d == rename(reg, h, new_name, failAt) IN
    /\ reg' = d.reg
    /\ last' = [op |-> "rename", res |-> d.res, before |-> EntryCount(reg),
                self |-> d.self]
    /\ UNCHANGED <<hkcu, calls, scan, resolved>>

\* before: 1 when the old-menu key was there when the call was made, else 0
ToggleOldMenu(enable, failAt) ==
    LET d == toggle_old_menu(hkcu, enable, failAt) IN
    /\ hkcu' = d.reg
    /\ last' = Call("toggle_old_menu", d.res,
                    IF KeyExists(hkcu, CTX_MENU_PATH) THEN 1 ELSE 0)
    /\ UNCHANGED <<reg, calls, scan, resolved>>

----------------------------------------------------------------------------
(* Inputs *)

OptionOf(S) == {None} \cup {Some(x) : x \in S}
AllOptions ==
    {EntryOptions(c, i, p, s, e) :
        c \in OptionOf(Strings), i \in OptionOf(Strings), p \in OptionOf(MenuPosition),
        s \in OptionOf(Separator), e \in BOOLEAN}
\* options that between them use every value of every attribute
SomeOptions ==
    {EntryOptions(Some("s1"), Some("s2"), Some(Top), Some(After), TRUE),
     EntryOptions(Some("s2"), None, Some(Bottom), Some(Both), FALSE),
     EntryOptions(None, Some("s1"), None, Some(Before), TRUE)}
FullOptions == EntryOptions(Some("s1"), Some("s2"), Some(Top), Some(After), TRUE)

NamePaths(n) == UNION {[1..m -> Names] : m \in 1..n}
EntriesOf(T, n) == {CtxEntry(np, t) : np \in NamePaths(n), t \in T}

----------------------------------------------------------------------------
(* Spec: trees of entries under the two activation types of directories *)

TreeTypes == {Folder, Background}
TreeEntries == EntriesOf(TreeTypes, MaxEntries)
\* an entry as deep as the bound can have no child within the bound
TreeParents == EntriesOf(TreeTypes, MaxEntries - 1)
InBounds == EntryCount(reg') <= MaxEntries

Next ==
    \/ \E nm \in Names, t \in TreeTypes : New(nm, t, 0) /\ InBounds
    \/ \E nm \in Names, t \in TreeTypes : NewWithOptions(nm, t, FullOptions, 0) /\ InBounds
    \/ \E h \in TreeParents, nm \in Names : NewChild(h, nm, FALSE, 0) /\ InBounds
    \/ \E h \in TreeParents, nm \in Names :
            NewChildWithOptions(h, nm, FullOptions, FALSE, 0) /\ InBounds
    \/ \E h \in TreeEntries : Delete(h, FALSE)

Spec == Init /\ [][Next]_vars

----------------------------------------------------------------------------
(* SpecAttr: one top-level entry of a file type at a time, with every      *)
(* attribute set and unset, and with the registry refusing calls           *)

AttrTypes == {File(".rs")}
AttrEntries == {CtxEntry(<<"a">>, t) : t \in AttrTypes}
AttrStrings == {"s1"}
OneEntry == EntryCount(reg') <= 1

NextAttr ==
    \/ \E h \in AttrEntries, failAt \in 0..1 :
            New(h.path[1], h.entry_type, failAt) /\ OneEntry
    \/ \E h \in AttrEntries, o \in SomeOptions, failAt \in 0..5 :
            NewWithOptions(h.path[1], h.entry_type, o, failAt) /\ OneEntry
    \/ \E h \in AttrEntries, fail \in BOOLEAN : Delete(h, fail)
    \/ \E h \in AttrEntries, c \in OptionOf(AttrStrings), fail \in BOOLEAN :
            SetCommand(h, c, fail)
    \/ \E h \in AttrEntries, i \in OptionOf(AttrStrings), fail \in BOOLEAN :
            SetIcon(h, i, fail)
    \/ \E h \in AttrEntries, p \in OptionOf(MenuPosition), fail \in BOOLEAN :
            SetPosition(h, p, fail)
    \/ \E h \in AttrEntries, e \in BOOLEAN, fail \in BOOLEAN : SetExtended(h, e, fail)
    \/ \E h \in AttrEntries, s \in OptionOf(Separator), fail \in BOOLEAN :
            SetSeparator(h, s, fail)

SpecAttr == Init /\ [][NextAttr]_vars

----------------------------------------------------------------------------
(* SpecRename: top-level entries of folders and their children created,    *)
(* renamed and deleted, with the registry refusing calls of rename          *)

RenameTypes == {Folder}
\* the names entries get by rename
NewNames == {"", "b"}
RenameNames == Names \cup (NewNames \ {""})
EntriesNamed(T, N, n) ==
    {CtxEntry(np, t) : np \in UNION {[1..m -> N] : m \in 1..n}, t \in T}
RenameEntries == EntriesNamed(RenameTypes, RenameNames, 2)
RenameParents == EntriesNamed(RenameTypes, RenameNames, 1)

NextRename ==
    \/ \E nm \in Names, t \in RenameTypes :
            NewWithOptions(nm, t, FullOptions, 0) /\ InBounds
    \/ \E h \in RenameParents, nm \in Names : NewChild(h, nm, FALSE, 0) /\ InBounds
    \/ \E h \in RenameEntries, new_name \in NewNames, failAt \in {0, 3} :
            Rename(h, new_name, failAt)
    \/ \E h \in RenameEntries : Delete(h, FALSE)

SpecRename == Init /\ [][NextRename]_vars

----------------------------------------------------------------------------
(* SpecMix: every kind of mutating call in any order on the entries of     *)
(* folders: new, new_child, the setters, rename and delete                 *)

\* the name rename gives here
MixNewNames == {"b"}
MixTop == EntriesNamed(RenameTypes, {"a"}, 1)

NextMix ==
    \/ \E nm \in Names, t \in RenameTypes : New(nm, t, 0) /\ InBounds
    \/ \E h \in RenameParents, nm \in Names : NewChild(h, nm, FALSE, 0) /\ InBounds
    \/ \E h \in RenameEntries, new_name \in MixNewNames : Rename(h, new_name, 0)
    \/ \E h \in RenameEntries : Delete(h, FALSE)
    \/ \E h \in MixTop, c \in OptionOf(AttrStrings) : SetCommand(h, c, FALSE)
    \/ \E h \in MixTop : SetExtended(h, FALSE, FALSE)

SpecMix == Init /\ [][NextMix]_vars

----------------------------------------------------------------------------
(* SpecToggle: the old menu switched on and off, with the registry         *)
(* refusing calls, while an entry of a file type is created, edited and    *)
(* deleted                                                                 *)

NextToggle ==
    \/ \E enable \in BOOLEAN, failAt \in 0..2 : ToggleOldMenu(enable, failAt)
    \/ \E h \in AttrEntries : New(h.path[1], h.entry_type, 0) /\ OneEntry
    \/ \E h \in AttrEntries : Delete(h, FALSE)
    \/ \E h \in AttrEntries, i \in OptionOf(AttrStrings) : SetIcon(h, i, FALSE)
    \/ \E h \in AttrEntries, e \in BOOLEAN : SetExtended(h, e, FALSE)

SpecToggle == Init /\ [][NextToggle]_vars

----------------------------------------------------------------------------
(* SpecRace: several callers in new_with_options for the same name and     *)
(* activation type at once.  A call is the registry calls of create, one   *)
(* after the other; the calls of different callers interleave, and the     *)
(* registry may refuse any of them.                                        *)

Callers == 1..NumCallers
RaceEntry == CtxEntry(<<"a">>, Folder)
RaceOptions == {DefaultOptions, FullOptions}

\* created: create_subkey answered REG_CREATED_NEW_KEY to this caller
\* refused: the registry refused this caller's create_subkey
InCall(opts) ==
    [pc |-> "create_subkey", opts |-> opts, res |-> None, created |-> FALSE,
     refused |-> FALSE]
Returned(call, res) == [call EXCEPT !.pc = "done", !.res = Some(res)]

InitRace ==
    /\ reg = [k \in InitKeys |-> NoValues]
    /\ last = Call("init", Ok(Unit), 0)
    /\ hkcu = [k \in HkcuKeys |-> NoValues]
    /\ calls \in [Callers -> {InCall(o) : o \in RaceOptions}]
    /\ scan = NoScan
    /\ resolved = NoPath

\* create_subkey without the look at its disposition
CreateSubkeyAnyDisposition(c, fail) ==
    LET path_str == get_full_path(RaceEntry.entry_type, RaceEntry.path) IN
    /\ calls[c].pc = "create_subkey"
    /\ IF fail
       THEN /\ calls' = [calls EXCEPT ![c] =
                            Returned([calls[c] EXCEPT !.refused = TRUE],
                                     Err(PermissionDenied))]
            /\ reg' = reg
       ELSE /\ calls' = [calls EXCEPT ![c].pc = "set_command",
                                      ![c].created = ~KeyExists(reg, path_str)]
            /\ reg' = RegCreateKey(reg, path_str)
    /\ UNCHANGED <<last, hkcu, scan, resolved>>

\* create: create_subkey and the look at its disposition
CreateSubkey(c, fail) ==
    LET path_str == get_full_path(RaceEntry.entry_type, RaceEntry.path) IN
    /\ calls[c].pc = "create_subkey"
    /\ IF fail
       THEN /\ calls' = [calls EXCEPT ![c] =
                            Returned([calls[c] EXCEPT !.refused = TRUE],
                                     Err(PermissionDenied))]
            /\ reg' = reg
       ELSE IF KeyExists(reg, path_str)
       THEN /\ calls' = [calls EXCEPT ![c] = Returned(calls[c], Err(AlreadyExists))]
            /\ reg' = reg
       ELSE /\ calls' = [calls EXCEPT ![c].pc = "set_command", ![c].created = TRUE]
            /\ reg' = RegCreateKey(reg, path_str)
    /\ UNCHANGED <<last, hkcu, scan, resolved>>

\* create: the four setters, each returning its error with `?`
SetAttribute(c, fail) ==
    LET pc == calls[c].pc
        opts == calls[c].opts
        d == IF pc = "set_command" THEN set_command(reg, RaceEntry, opts.command, fail)
             ELSE IF pc = "set_icon" THEN set_icon(reg, RaceEntry, opts.icon, fail)
             ELSE IF pc = "set_position"
             THEN set_position(reg, RaceEntry, opts.position, fail)
             ELSE set_extended(reg, RaceEntry, opts.extended, fail)
        next == IF pc = "set_command" THEN "set_icon"
                ELSE IF pc = "set_icon" THEN "set_position"
                ELSE "set_extended"
    IN  /\ pc \in {"set_command", "set_icon", "set_position", "set_extended"}
        /\ reg' = d.reg
        /\ calls' = [calls EXCEPT ![c] =
                        IF d.res.tag = "Err" THEN Returned(calls[c], d.res)
                        ELSE IF pc = "set_extended"
                        THEN Returned(calls[c], Ok(RaceEntry))
                        ELSE [calls[c] EXCEPT !.pc = next]]
        /\ UNCHANGED <<last, hkcu, scan, resolved>>

NextRace ==
    \/ \E c \in Callers, fail \in BOOLEAN : CreateSubkey(c, fail)
    \/ \E c \in Callers, fail \in BOOLEAN : SetAttribute(c, fail)

SpecRace == InitRace /\ [][NextRace]_vars

----------------------------------------------------------------------------
(* SpecChild: a call of new_child_with_options on the entry "a", one       *)
(* registry call after the other, while another actor creates and deletes  *)
(* that entry.  Nothing is locked between the calls.                       *)

ChildParent == CtxEntry(<<"a">>, Folder)
ChildOptions == {DefaultOptions, FullOptions}

\* stale:   the key opened by self.key() has been deleted since
\* raced:   the parent was deleted after the Subcommands write and before
\*          create_subkey
\* created: create_subkey answered REG_CREATED_NEW_KEY
InChildCall(nm, opts) ==
    [pc |-> "key", name |-> nm, opts |-> opts, res |-> None, stale |-> FALSE,
     raced |-> FALSE, created |-> FALSE]

InitChild ==
    /\ reg = [k \in InitKeys |-> NoValues]
    /\ last = Call("init", Ok(Unit), 0)
    /\ hkcu = [k \in HkcuKeys |-> NoValues]
    /\ calls = [pc |-> "idle"]
    /\ scan = NoScan
    /\ resolved = NoPath

ChildCall(nm, opts) ==
    /\ calls.pc \in {"idle", "done"}
    /\ calls' = InChildCall(nm, opts)
    /\ UNCHANGED <<reg, last, hkcu, scan, resolved>>

\* let key = self.key()?
ChildKey(fail) ==
    LET k == key(reg, ChildParent, fail) IN
    /\ calls.pc = "key"
    /\ calls' = IF k.tag = "Err" THEN Returned(calls, k)
                ELSE [calls EXCEPT !.pc = "set_subcommands"]
    /\ UNCHANGED <<reg, last, hkcu, scan, resolved>>

\* key.set_value("Subcommands", &"")?  The registry refuses a write through
\* the handle of a key that has been deleted.
ChildSetSubcommands(fail) ==
    /\ calls.pc = "set_subcommands"
    /\ IF fail \/ calls.stale
       THEN /\ calls' = Returned(calls, Err(PermissionDenied))
            /\ reg' = reg
       ELSE /\ calls' = [calls EXCEPT !.pc = "create_subkey"]
            /\ reg' = RegSetValue(reg, path(ChildParent), "Subcommands", "")
    /\ UNCHANGED <<last, hkcu, scan, resolved>>

\* create: create_subkey on the full path of the child, which makes every
\* missing key on the way, and the look at its disposition
ChildCreateSubkey(fail) ==
    LET path_str == get_full_path(ChildParent.entry_type,
                                  Append(ChildParent.path, calls.name)) IN
    /\ calls.pc = "create_subkey"
    /\ IF fail
       THEN /\ calls' = Returned(calls, Err(PermissionDenied))
            /\ reg' = reg
       ELSE IF KeyExists(reg, path_str)
       THEN /\ calls' = Returned(calls, Err(AlreadyExists))
            /\ reg' = reg
       ELSE /\ calls' = [calls EXCEPT !.pc = "set_command", !.created = TRUE]
            /\ reg' = RegCreateKey(reg, path_str)
    /\ UNCHANGED <<last, hkcu, scan, resolved>>

\* create: the four setters on the child, each returning its error with `?`
ChildSetAttribute(fail) ==
    LET pc == calls.pc
        opts == calls.opts
        entry == CtxEntry(Append(ChildParent.path, calls.name), ChildParent.entry_type)
        d == IF pc = "set_command" THEN set_command(reg, entry, opts.command, fail)
             ELSE IF pc = "set_icon" THEN set_icon(reg, entry, opts.icon, fail)
             ELSE IF pc = "set_position"
             THEN set_position(reg, entry, opts.position, fail)
             ELSE set_extended(reg, entry, opts.extended, fail)
        next == IF pc = "set_command" THEN "set_icon"
                ELSE IF pc = "set_icon" THEN "set_position"
                ELSE "set_extended"
    IN  /\ pc \in {"set_command", "set_icon", "set_position", "set_extended"}
        /\ reg' = d.reg
        /\ calls' = IF d.res.tag = "Err" THEN Returned(calls, d.res)
                    ELSE IF pc = "set_extended" THEN Returned(calls, Ok(entry))
                    ELSE [calls EXCEPT !.pc = next]
        /\ UNCHANGED <<last, hkcu, scan, resolved>>

\* the other actor makes the entry "a"
OtherNew ==
    LET d == new(reg, ChildParent.path[1], ChildParent.entry_type, 0) IN
    /\ reg' = d.reg
    /\ last' = Call("new", d.res, EntryCount(reg))
    /\ UNCHANGED <<hkcu, calls, scan, resolved>>

\* the other actor deletes the entry "a"
OtherDelete ==
    LET d == delete(reg, ChildParent, FALSE) IN
    /\ reg' = d.reg
    /\ last' = Call("delete", d.res, EntryCount(reg))
    /\ calls' = IF d.res.tag = "Err" THEN calls
                ELSE IF calls.pc = "set_subcommands" THEN [calls EXCEPT !.stale = TRUE]
                ELSE IF calls.pc = "create_subkey" THEN [calls EXCEPT !.raced = TRUE]
                ELSE calls
    /\ UNCHANGED <<hkcu, scan, resolved>>

NextChild ==
    \/ \E nm \in Names, opts \in ChildOptions : ChildCall(nm, opts)
    \/ \E fail \in BOOLEAN : ChildKey(fail)
    \/ \E fail \in BOOLEAN : ChildSetSubcommands(fail)
    \/ \E fail \in BOOLEAN : ChildCreateSubkey(fail)
    \/ \E fail \in BOOLEAN : ChildSetAttribute(fail)
    \/ OtherNew
    \/ OtherDelete

SpecChild == InitChild /\ [][NextChild]_vars

----------------------------------------------------------------------------
(* SpecScan: a call of get_all_of_type, one registry call after the other, *)
(* while another actor creates and deletes top-level entries.  enum_keys   *)
(* is an iterator: each turn of the loop asks the registry for the subkey  *)
(* at the next index of the key as it is then.                             *)

ScanTypes == {Folder, File(".rs")}
ScanNames == Names \cup {"b"}
ScanEntries == EntriesNamed({Folder}, ScanNames, 1)

\* HashMap::insert
Insert(m, k, v) == [n \in DOMAIN m \cup {k} |-> IF n = k THEN v ELSE m[n]]

\* log: what the loop has been through, for the claims: each name
\* enumerated, with whether its key existed when get resolved it;
\* root: whether the shell key of the type existed when the call began
Scanning(t, root) ==
    [pc |-> "enum", entry_type |-> t, index |-> 0, entry_name |-> "",
     entries |-> <<>>, log |-> {}, root |-> root]

\* get_key(shell_path): any error returns the empty map
ScanOpen(t, fail) ==
    LET shell_path == get_base_path(t) \o <<"shell">>
        shell_key == get_key(reg, shell_path, fail)
    IN  /\ scan.pc = "idle"
        /\ scan' = IF shell_key.tag = "Err"
                   THEN [Scanning(t, KeyExists(reg, shell_path)) EXCEPT !.pc = "done"]
                   ELSE Scanning(t, TRUE)
        /\ UNCHANGED <<reg, last, hkcu, calls, resolved>>

\* EnumKeys::next: Some(name), or None after the last subkey; the error of
\* a key that is gone is unwrapped
ScanEnum ==
    LET shell_path == get_base_path(scan.entry_type) \o <<"shell">>
        names == EnumKeys(reg, shell_path)
    IN  /\ scan.pc = "enum"
        /\ scan' = IF ~KeyExists(reg, shell_path) THEN [scan EXCEPT !.pc = "panic"]
                   ELSE IF scan.index >= Len(names) THEN [scan EXCEPT !.pc = "done"]
                   ELSE [scan EXCEPT !.pc = "resolve", !.index = @ + 1,
                                     !.entry_name = names[scan.index + 1]]
        /\ UNCHANGED <<reg, last, hkcu, calls, resolved>>

\* the body of the loop: get of the name, inserted when it is Some
ScanResolve(fail) ==
    LET name_path == <<scan.entry_name>>
        found == get(reg, name_path, scan.entry_type, fail)
        existed == KeyExists(reg, get_full_path(scan.entry_type, name_path))
    IN  /\ scan.pc = "resolve"
        /\ scan' = [scan EXCEPT
                        !.pc = "enum",
                        !.entries = IF found = None THEN @
                                    ELSE Insert(@, scan.entry_name, found[1]),
                        !.log = @ \cup {[name |-> scan.entry_name,
                                         existed |-> existed]}]
        /\ UNCHANGED <<reg, last, hkcu, calls, resolved>>

\* the map is returned; the next call can begin
ScanReturn ==
    /\ scan.pc = "done"
    /\ scan' = NoScan
    /\ UNCHANGED <<reg, last, hkcu, calls, resolved>>

NextScan ==
    \/ \E t \in ScanTypes, fail \in BOOLEAN : ScanOpen(t, fail)
    \/ ScanEnum
    \/ \E fail \in BOOLEAN : ScanResolve(fail)
    \/ ScanReturn
    \/ \E h \in ScanEntries : New(h.path[1], h.entry_type, 0) /\ InBounds
    \/ \E h \in ScanEntries : Delete(h, FALSE)

SpecScan == Init /\ [][NextScan]_vars

----------------------------------------------------------------------------
(* SpecPath: get_full_path called with every activation type and every     *)
(* name path of key names, up to MaxNames names                            *)

\* names of registry keys: strings without a backslash
KeyNames == {"a", "1", "shell", "Background"}
PathNamePaths == UNION {[1..m -> KeyNames] : m \in 0..MaxNames}

PathAsked(t, np) == [pc |-> "asked", entry_type |-> t, name_path |-> np]

InitPath ==
    /\ reg = [k \in InitKeys |-> NoValues]
    /\ last = Call("init", Ok(Unit), 0)
    /\ hkcu = [k \in HkcuKeys |-> NoValues]
    /\ calls = NoCalls
    /\ scan = NoScan
    /\ resolved \in {PathAsked(t, np) : t \in ActivationType, np \in PathNamePaths}

GetFullPath ==
    /\ resolved.pc = "asked"
    /\ resolved' = [pc |-> "returned", entry_type |-> resolved.entry_type,
                    name_path |-> resolved.name_path,
                    out |-> get_full_path_str(resolved.entry_type,
                                              resolved.name_path)]
    /\ UNCHANGED <<reg, last, hkcu, calls, scan>>

NextPath == GetFullPath

SpecPath == InitPath /\ [][NextPath]_vars

----------------------------------------------------------------------------
(* The claims.  A claim about what a call does is stated for the call made  *)
(* in every reachable registry: on every entry of every activation type,    *)
(* with every argument.                                                     *)

\* every entry the caller can name in a registry of at most MaxEntries entries
Handles == EntriesOf(ActivationType, MaxEntries)
ParentOf(h) == CtxEntry(SubSeq(h.path, 1, Len(h.path) - 1), h.entry_type)
ChildOf(h, nm) == CtxEntry(Append(h.path, nm), h.entry_type)
Exists(r, h) == KeyExists(r, path(h))
\* the names of the entries right below h
ChildNames(r, h) == SubkeyNames(r, path(h) \o <<"shell">>)
SeqRange(q) == {q[i] : i \in 1..Len(q)}
\* the keys of h and of everything below it
Subtree(r, h) == {k \in DOMAIN r : IsPrefix(path(h), k)}
SameUnder(r1, r2, h) ==
    /\ Subtree(r1, h) = Subtree(r2, h)
    /\ \A k \in Subtree(r1, h) : r1[k] = r2[k]

\* C1: for an entry with k >= 0 children, children() returns Ok with exactly k
\* handles, one per child, each with the parent's name path followed by the
\* child's name, whatever attributes the parent and the children have.
C1_ChildrenReturnsEveryChild ==
    \A h \in Handles :
        Exists(reg, h) =>
            LET c == children(reg, h, FALSE) IN
            /\ c.tag = "Ok"
            /\ Len(c.val) = Cardinality(ChildNames(reg, h))
            /\ SeqRange(c.val) = {ChildOf(h, nm) : nm \in ChildNames(reg, h)}

\* C2: creating an entry where the registry already has its key returns
\* AlreadyExists (when the registry does not refuse the call) and leaves the
\* key of the existing entry and everything below it as it was, whatever
\* options are passed.
C2_CreateExistingFails ==
    \A h \in Handles :
        Exists(reg, h) =>
          \A o \in SomeOptions \cup {DefaultOptions}, failAt \in 0..5 :
            /\ LET d == create(reg, h.path, h.entry_type, o, failAt) IN
               /\ failAt # 1 => d.res = Err(AlreadyExists)
               /\ d.res.tag = "Err"
               /\ d.reg = reg
            /\ Len(h.path) = 1 =>
               LET d == new_with_options(reg, h.path[1], h.entry_type, o, failAt) IN
               /\ failAt # 1 => d.res = Err(AlreadyExists)
               /\ d.reg = reg
               /\ new(reg, h.path[1], h.entry_type, 0) = Done(reg, Err(AlreadyExists))
            /\ Len(h.path) > 1 =>
               LET nm == h.path[Len(h.path)]
                   d == new_child_with_options(reg, ParentOf(h), nm, o, FALSE, failAt)
                   n == new_child(reg, ParentOf(h), nm, FALSE, 0)
               IN  /\ failAt # 1 => d.res = Err(AlreadyExists)
                   /\ d.res.tag = "Err"
                   /\ SameUnder(d.reg, reg, h)
                   /\ n.res = Err(AlreadyExists)
                   /\ SameUnder(n.reg, reg, h)

\* a creation was answered AlreadyExists while an entry with an icon and a
\* command is in the registry
C2_Witness ==
    /\ last.op \in {"new_with_options", "new_child_with_options"}
    /\ last.res = Err(AlreadyExists)
    /\ \E h \in Handles :
        /\ Exists(reg, h)
        /\ icon(reg, h, FALSE) = Ok(Some("s2"))
        /\ command(reg, h, FALSE) = Ok(Some("s1"))

\* C3: for every attribute and every value v of it, in every attribute state of
\* an existing entry: when the setter called with v succeeds, the getter
\* returns exactly v.
C3_SetThenGet ==
    \A h \in Handles :
        /\ \A c \in Strings :
            LET d == set_command(reg, h, Some(c), FALSE) IN
            d.res.tag = "Ok" => command(d.reg, h, FALSE) = Ok(Some(c))
        /\ \A i \in Strings :
            LET d == set_icon(reg, h, Some(i), FALSE) IN
            d.res.tag = "Ok" => icon(d.reg, h, FALSE) = Ok(Some(i))
        /\ \A p \in MenuPosition :
            LET d == set_position(reg, h, Some(p), FALSE) IN
            d.res.tag = "Ok" => position(d.reg, h, FALSE) = Ok(Some(p))
        /\ LET d == set_extended(reg, h, TRUE, FALSE) IN
           d.res.tag = "Ok" => extended(d.reg, h, FALSE) = Ok(TRUE)
        /\ \A sep \in Separator :
            LET d == set_separator(reg, h, Some(sep), FALSE) IN
            d.res.tag = "Ok" => separator(d.reg, h, FALSE) = Ok(Some(sep))

\* set_separator has succeeded on an entry that has every other attribute, and
\* the entry now has exactly one of the two markers
C3_Witness ==
    /\ last.op = "set_separator"
    /\ last.res = Ok(Unit)
    /\ \E h \in AttrEntries :
        /\ separator(reg, h, FALSE) \in {Ok(Some(Before)), Ok(Some(After))}
        /\ command(reg, h, FALSE) = Ok(Some("s1"))
        /\ icon(reg, h, FALSE) = Ok(Some("s1"))
        /\ position(reg, h, FALSE) = Ok(Some(Bottom))
        /\ extended(reg, h, FALSE) = Ok(TRUE)

\* C4: for every attribute of an existing entry: after it is set to unset
\* (None, false), its getter returns absence (Ok(None), Ok(false)), not an
\* error.
C4_UnsetThenGet ==
    \A h \in Handles :
        /\ LET d == set_command(reg, h, None, FALSE) IN
           d.res.tag = "Ok" => command(d.reg, h, FALSE) = Ok(None)
        /\ LET d == set_icon(reg, h, None, FALSE) IN
           d.res.tag = "Ok" => icon(d.reg, h, FALSE) = Ok(None)
        /\ LET d == set_position(reg, h, None, FALSE) IN
           d.res.tag = "Ok" => position(d.reg, h, FALSE) = Ok(None)
        /\ LET d == set_extended(reg, h, FALSE, FALSE) IN
           d.res.tag = "Ok" => extended(d.reg, h, FALSE) = Ok(FALSE)
        /\ LET d == set_separator(reg, h, None, FALSE) IN
           d.res.tag = "Ok" => separator(d.reg, h, FALSE) = Ok(None)

\* C5: once the key of its parent is gone, a child entry's parent() is None,
\* and name(), every attribute getter and every attribute setter on it fail
\* with NotFound; the setters leave the registry as it is.  Stated for the
\* children of top-level entries.
C5_OrphanFailsNotFound ==
    \A h \in {g \in Handles : Len(g.path) = 2} :
        ~Exists(reg, ParentOf(h)) =>
          \A fail \in BOOLEAN :
            /\ parent(reg, h, fail) = None
            /\ name(reg, h, fail) = Err(NotFound)
            /\ command(reg, h, fail) = Err(NotFound)
            /\ icon(reg, h, fail) = Err(NotFound)
            /\ position(reg, h, fail) = Err(NotFound)
            /\ extended(reg, h, fail) = Err(NotFound)
            /\ separator(reg, h, fail) = Err(NotFound)
            /\ \A c \in OptionOf(Strings) :
                /\ set_command(reg, h, c, fail) = Done(reg, Err(NotFound))
                /\ set_icon(reg, h, c, fail) = Done(reg, Err(NotFound))
            /\ \A p \in OptionOf(MenuPosition) :
                set_position(reg, h, p, fail) = Done(reg, Err(NotFound))
            /\ \A e \in BOOLEAN :
                set_extended(reg, h, e, fail) = Done(reg, Err(NotFound))
            /\ \A sep \in OptionOf(Separator) :
                set_separator(reg, h, sep, fail) = Done(reg, Err(NotFound))

\* delete() has succeeded on a top-level entry that had a child
C5_Witness ==
    /\ last.op = "delete"
    /\ last.res = Ok(Unit)
    /\ last.before >= EntryCount(reg) + 2
    /\ \E h \in Handles : Len(h.path) > 1 /\ ~Exists(reg, ParentOf(h))

\* C6: get(name_path, entry_type) returns None when the key of the path is
\* missing, a handle for the path and the type when the key opens, and reports
\* any other failure of the registry as an error, not as a handle.
C6_GetPropagatesFailure ==
    \A h \in Handles :
        /\ ~Exists(reg, h) => get(reg, h.path, h.entry_type, FALSE) = None
        /\ Exists(reg, h) => get(reg, h.path, h.entry_type, FALSE) = Some(h)
        /\ Exists(reg, h) => get(reg, h.path, h.entry_type, TRUE) # Some(h)

\* what the getters return for g, and the Subcommands marker
Attributes(r, g) ==
    <<command(r, g, FALSE), icon(r, g, FALSE), position(r, g, FALSE),
      extended(r, g, FALSE), separator(r, g, FALSE), r[path(g)]["Subcommands"]>>

\* C7: a delete() that succeeds removes the key of the entry and everything
\* below it and nothing else: get() on the entry and on every entry below it
\* returns None, and every other key is there with the values it had.
C7_DeleteRemovesSubtreeOnly ==
    \A h \in Handles :
        LET d == delete(reg, h, FALSE) IN
        d.res.tag = "Ok" =>
            /\ \A g \in Handles :
                (g.entry_type = h.entry_type /\ IsPrefix(h.path, g.path)) =>
                    \A fail \in BOOLEAN : get(d.reg, g.path, g.entry_type, fail) = None
            /\ DOMAIN d.reg = DOMAIN reg \ Subtree(reg, h)
            /\ \A k \in DOMAIN d.reg : d.reg[k] = reg[k]
            /\ \A g \in Handles :
                (Exists(reg, g) /\ ~(g.entry_type = h.entry_type /\ IsPrefix(h.path, g.path)))
                    => (Exists(d.reg, g) /\ Attributes(d.reg, g) = Attributes(reg, g))

\* delete() has succeeded on one of two entries, and the other, which has a
\* command and an icon, is in the registry
C7_Witness ==
    /\ last.op = "delete"
    /\ last.res = Ok(Unit)
    /\ last.before = 2
    /\ \E h \in Handles :
        /\ Exists(reg, h)
        /\ command(reg, h, FALSE) = Ok(Some("s1"))
        /\ icon(reg, h, FALSE) = Ok(Some("s2"))

\* C8: after a creation with options o succeeds, get() on the name path
\* returns a handle with that name path, and command(), icon(), position()
\* and extended() return o.command, o.icon, o.position and o.extended.
C8_CreatedReadsBackOptions ==
    \A nm \in Names, t \in ActivationType, o \in AllOptions :
        ~Exists(reg, CtxEntry(<<nm>>, t)) =>
            LET d == new_with_options(reg, nm, t, o, 0)
                e == CtxEntry(<<nm>>, t)
            IN  d.res.tag = "Ok" =>
                    /\ d.res.val = e
                    /\ get(d.reg, <<nm>>, t, FALSE) = Some(e)
                    /\ command(d.reg, e, FALSE) = Ok(o.command)
                    /\ icon(d.reg, e, FALSE) = Ok(o.icon)
                    /\ position(d.reg, e, FALSE) = Ok(o.position)
                    /\ extended(d.reg, e, FALSE) = Ok(o.extended)

\* C9: after a creation with options whose separator is Some(v) succeeds,
\* separator() on the created entry returns Some(v).
C9_CreatedHasSeparator ==
    \A nm \in Names, t \in ActivationType, o \in AllOptions :
        (~Exists(reg, CtxEntry(<<nm>>, t)) /\ o.separator # None) =>
            LET d == new_with_options(reg, nm, t, o, 0) IN
            d.res.tag = "Ok" => separator(d.reg, d.res.val, FALSE) = Ok(o.separator)

\* the registry has the key of h, no "command" key below it and none of the
\* values Icon, Position and Extended in it
Bare(r, h) ==
    /\ KeyExists(r, path(h))
    /\ ~KeyExists(r, path(h) \o <<"command">>)
    /\ r[path(h)]["Icon"] = Absent
    /\ r[path(h)]["Position"] = Absent
    /\ r[path(h)]["Extended"] = Absent

\* C10: right after new or new_child has succeeded, under every activation
\* type, the key of the entry exists and has no "command" key and no Icon,
\* Position or Extended value.
C10_NewEntryIsBare ==
    /\ \A nm \in Names, t \in ActivationType :
        LET d == new(reg, nm, t, 0) IN
        d.res.tag = "Ok" => (d.res.val = CtxEntry(<<nm>>, t) /\ Bare(d.reg, d.res.val))
    /\ \A h \in Handles, nm \in Names :
        LET d == new_child(reg, h, nm, FALSE, 0) IN
        d.res.tag = "Ok" => (d.res.val = ChildOf(h, nm) /\ Bare(d.reg, d.res.val))
    /\ (last.op \in {"new", "new_child"} /\ last.res.tag = "Ok") => Bare(reg, last.res.val)

\* new has just created an entry for the background of directories
C10_Witness ==
    /\ last.op = "new"
    /\ last.res = Ok(CtxEntry(<<"a">>, Background))
    /\ last.before = EntryCount(reg) - 1

----------------------------------------------------------------------------
(* Claims about navigation, rename and entries that are gone, stated for    *)
(* the entries of SpecRename and for entries of a file type without keys    *)

RenameHandles == EntriesNamed({Folder, File(".rs")}, RenameNames, 2)
\* the entry h once renamed to new_name
RenamedTo(h, new_name) ==
    CtxEntry([h.path EXCEPT ![Len(h.path)] = new_name], h.entry_type)
\* the keys below the key of h and their values, by the path from that key
RelTree(r, h) ==
    [s \in {SubSeq(k, Len(path(h)) + 1, Len(k)) : k \in Subtree(r, h)} |->
        r[path(h) \o s]]

\* C11: parent() of an entry with a single name is None in every registry;
\* parent() of the entry new_child returned, and of any entry whose parent's
\* key exists, is an entry with the name path and the registry path of the
\* parent.
C11_ParentOfRootAndChild ==
    /\ \A h \in RenameHandles, fail \in BOOLEAN :
        Len(h.path) = 1 => parent(reg, h, fail) = None
    /\ \A h \in RenameHandles, nm \in RenameNames :
        LET d == new_child(reg, h, nm, FALSE, 0) IN
        d.res.tag = "Ok" =>
            \A fail \in BOOLEAN :
                LET p == parent(d.reg, d.res.val, fail) IN
                /\ p # None
                /\ p[1].path = h.path
                /\ path(p[1]) = path(h)
    /\ \A h \in RenameHandles, fail \in BOOLEAN :
        (Len(h.path) > 1 /\ Exists(reg, ParentOf(h))) =>
            parent(reg, h, fail) = Some(ParentOf(h))

\* new_child has just returned an entry, and parent() of it is its creator
C11_Witness ==
    /\ last.op = "new_child"
    /\ last.res.tag = "Ok"
    /\ Exists(reg, ParentOf(last.res.val))
    /\ parent(reg, last.res.val, FALSE) = Some(ParentOf(last.res.val))

\* C12: rename("") returns InvalidInput and changes neither the registry nor
\* the name path of the entry, whether the entry's key exists or not.
C12_RenameEmptyRejected ==
    /\ \A h \in RenameHandles, failAt \in 0..3 :
        rename(reg, h, "", failAt) = Renamed(reg, Err(InvalidInput), h)
    /\ (last.op = "rename" /\ last.res = Err(InvalidInput)) =>
            last.self.path[Len(last.self.path)] # ""

\* rename("") has been refused on an entry that exists
C12_Witness ==
    /\ last.op = "rename"
    /\ last.res = Err(InvalidInput)
    /\ Exists(reg, last.self)
    /\ icon(reg, last.self, FALSE) = Ok(Some("s2"))

\* C13: after rename(new_name) succeeds on an entry that exists, with a
\* name that is not empty and that no entry beside it has, the entry's old
\* key is gone, the key of the parent's path and new_name exists with the
\* attributes and the subtree the entry had, and name() on the renamed entry
\* returns new_name.
C13_RenameMovesEntry ==
    \A h \in RenameHandles, new_name \in RenameNames :
        LET d == rename(reg, h, new_name, 0) IN
        (Exists(reg, h) /\ ~Exists(reg, RenamedTo(h, new_name)) /\ d.res.tag = "Ok") =>
            /\ ~Exists(d.reg, h)
            /\ Exists(d.reg, RenamedTo(h, new_name))
            /\ RelTree(d.reg, RenamedTo(h, new_name)) = RelTree(reg, h)
            /\ name(d.reg, d.self, FALSE) = Ok(new_name)

\* C14 as claimed: after rename(new_name) with a name that is not empty
\* returns, the last name of the entry's name path is new_name.
C14_RenameAlwaysUpdatesName ==
    \A h \in RenameHandles, new_name \in RenameNames, failAt \in 0..3 :
        LET d == rename(reg, h, new_name, failAt) IN
        d.self.path[Len(d.self.path)] = new_name

\* C14 amended: when the entry's key exists and the registry lets rename open
\* it and the parent key, the last name of the entry's name path is new_name
\* after rename(new_name) returns, whether rename_subkey succeeded or failed;
\* otherwise rename returns the error of the open and the name path and the
\* registry are as they were.
C14_RenameUpdatesNameOnceOpened ==
    \A h \in RenameHandles, new_name \in RenameNames, failAt \in 0..3 :
        LET d == rename(reg, h, new_name, failAt) IN
        IF Exists(reg, h) /\ failAt \notin {1, 2}
        THEN d.self = RenamedTo(h, new_name)
        ELSE d.self = h /\ d.res.tag = "Err" /\ d.reg = reg

\* a rename to "b" has failed in rename_subkey and the entry is named "b"
C14_Witness ==
    /\ last.op = "rename"
    /\ last.res.tag = "Err"
    /\ last.before >= 1
    /\ last.self.path[Len(last.self.path)] = "b"
    /\ ~Exists(reg, last.self)

\* C20: set_command, set_icon, set_position, set_extended, set_separator,
\* rename with a name that is not empty, new_child and delete, called on an
\* entry whose key does not exist, return NotFound and leave the registry as
\* it is: neither the key of the entry nor a key above it is created.
C20_MutatorsOnMissingFail ==
    \A h \in RenameHandles :
        ~Exists(reg, h) =>
            /\ \A fail \in BOOLEAN :
                /\ \A c \in OptionOf(Strings) :
                    /\ set_command(reg, h, c, fail) = Done(reg, Err(NotFound))
                    /\ set_icon(reg, h, c, fail) = Done(reg, Err(NotFound))
                /\ \A p \in OptionOf(MenuPosition) :
                    set_position(reg, h, p, fail) = Done(reg, Err(NotFound))
                /\ \A e \in BOOLEAN :
                    set_extended(reg, h, e, fail) = Done(reg, Err(NotFound))
                /\ \A sep \in OptionOf(Separator) :
                    set_separator(reg, h, sep, fail) = Done(reg, Err(NotFound))
                /\ delete(reg, h, fail) = Done(reg, Err(NotFound))
                /\ \A nm \in RenameNames, failAt \in 0..1 :
                    /\ new_child(reg, h, nm, fail, failAt) = Done(reg, Err(NotFound))
                    /\ new_child_with_options(reg, h, nm, FullOptions, fail, failAt)
                            = Done(reg, Err(NotFound))
            /\ \A new_name \in RenameNames, failAt \in 0..3 :
                LET d == rename(reg, h, new_name, failAt) IN
                d.res = Err(NotFound) /\ d.reg = reg

\* new_child has been refused with NotFound on an entry without a key, while
\* another entry exists, and no key above the entry was created
C20_Witness ==
    /\ last.op = "new_child"
    /\ last.res = Err(NotFound)
    /\ last.before = EntryCount(reg)
    /\ EntryCount(reg) >= 1
    /\ \E h \in RenameHandles : Len(h.path) > 1 /\ ~Exists(reg, ParentOf(h))

----------------------------------------------------------------------------
(* Claims about the old menu *)

\* C19: toggle_old_menu(true), called once, twice or three times, returns Ok
\* each time and leaves the old-menu key present, the later calls changing
\* nothing; toggle_old_menu(false), called once, twice or three times,
\* returns Ok each time and leaves the key absent, also when the key was
\* absent before the first call.
C19_ToggleIdempotent ==
    LET on1 == toggle_old_menu(hkcu, TRUE, 0)
        on2 == toggle_old_menu(on1.reg, TRUE, 0)
        on3 == toggle_old_menu(on2.reg, TRUE, 0)
        off1 == toggle_old_menu(hkcu, FALSE, 0)
        off2 == toggle_old_menu(off1.reg, FALSE, 0)
        off3 == toggle_old_menu(off2.reg, FALSE, 0)
    IN  /\ on1.res = Ok(Unit) /\ on2.res = Ok(Unit) /\ on3.res = Ok(Unit)
        /\ KeyExists(on1.reg, CTX_MENU_PATH)
        /\ on2.reg = on1.reg /\ on3.reg = on1.reg
        /\ off1.res = Ok(Unit) /\ off2.res = Ok(Unit) /\ off3.res = Ok(Unit)
        /\ ~KeyExists(off1.reg, CTX_MENU_PATH)
        /\ off2.reg = off1.reg /\ off3.reg = off1.reg
        /\ (last.op = "toggle_old_menu" /\ last.res = Ok(Unit) /\ last.before = 0) =>
                (KeyExists(hkcu, CTX_MENU_PATH)
                    <=> KeyExists(hkcu, CTX_MENU_PATH \o <<"InprocServer32">>))

\* toggle_old_menu(false) has returned Ok with the key absent before and after
C19_Witness ==
    /\ last.op = "toggle_old_menu"
    /\ last.res = Ok(Unit)
    /\ last.before = 0
    /\ ~KeyExists(hkcu, CTX_MENU_PATH)

----------------------------------------------------------------------------
(* Claims about callers at the same time *)

AllReturned == \A c \in Callers : calls[c].pc = "done"
Creators == {c \in Callers : calls[c].created}

\* C15 as claimed: when every one of the concurrent calls that create the
\* same absent entry has returned, exactly one of them has created the key,
\* that call has not returned AlreadyExists, and every other call has
\* returned an error.
C15_ExactlyOneCreates ==
    (calls # NoCalls /\ AllReturned) =>
        /\ Cardinality(Creators) = 1
        /\ \A c \in Creators : calls[c].res # Some(Err(AlreadyExists))
        /\ \A c \in Callers \ Creators : calls[c].res[1].tag = "Err"

\* C15 amended: at most one of the calls creates the key, at every moment;
\* when all have returned, exactly one has created it unless the registry
\* refused the create_subkey of every call, the creating call has not
\* returned AlreadyExists, and every other call has returned an error:
\* AlreadyExists, or the refusal of its create_subkey.
C15_AtMostOneCreates ==
    calls # NoCalls =>
        /\ Cardinality(Creators) <= 1
        /\ AllReturned =>
            /\ (\E c \in Callers : ~calls[c].refused) => Cardinality(Creators) = 1
            /\ \A c \in Creators : calls[c].res # Some(Err(AlreadyExists))
            /\ \A c \in Callers \ Creators :
                calls[c].res \in {Some(Err(AlreadyExists)), Some(Err(PermissionDenied))}
            /\ \A c \in Callers \ Creators :
                calls[c].res = Some(Err(PermissionDenied)) <=> calls[c].refused

\* every call has returned: one created the entry and returned it, and
\* another returned AlreadyExists
C15_Witness ==
    /\ calls # NoCalls
    /\ AllReturned
    /\ \E c \in Callers : calls[c].created /\ calls[c].res = Some(Ok(RaceEntry))
    /\ \E c \in Callers : calls[c].res = Some(Err(AlreadyExists))
    /\ KeyExists(reg, path(RaceEntry))

\* C16: get_all_of_type never panics, and the map it returns has, for each
\* name that was enumerated and whose key existed when get resolved it, the
\* entry with that single name and the type asked for, under that name, and
\* nothing else: a name whose key was deleted between its enumeration and
\* its resolution is left out.  When the shell key of the type is missing
\* the map is empty.
C16_ScanReturnsResolvedEntries ==
    /\ scan.pc # "panic"
    /\ scan.pc = "done" =>
        /\ scan.entries =
            [n \in {l.name : l \in {k \in scan.log : k.existed}} |->
                CtxEntry(<<n>>, scan.entry_type)]
        /\ ~scan.root => scan.entries = <<>>

\* a call has returned a map with an entry, without the name of an entry
\* that was enumerated and deleted before get resolved it
C16_Witness ==
    /\ scan.pc = "done"
    /\ scan.entries # <<>>
    /\ \E l \in scan.log : ~l.existed /\ l.name \notin DOMAIN scan.entries

----------------------------------------------------------------------------
(* Claims about paths *)

RECURSIVE ShellAndNames(_)
\* "\shell\" and the name, for each name in order
ShellAndNames(name_path) ==
    IF name_path = <<>> THEN ""
    ELSE "\\shell\\" \o Head(name_path) \o ShellAndNames(Tail(name_path))

\* C17: under one activation type no other name path of key names has the
\* string get_full_path returned for a name path, and get_full_path of the
\* same arguments is that string again.
C17_FullPathInjective ==
    resolved.pc = "returned" =>
        /\ \A np \in PathNamePaths :
            get_full_path_str(resolved.entry_type, np) = resolved.out
                => np = resolved.name_path
        /\ get_full_path_str(resolved.entry_type, resolved.name_path) = resolved.out

\* get_full_path has returned the path of the entry shell below the entry
\* shell of folders
C17_Witness ==
    /\ resolved.pc = "returned"
    /\ resolved.name_path = <<"shell", "shell">>
    /\ resolved.out = "Directory\\shell\\shell\\shell\\shell"

\* C18: get_full_path returns the base path of the activation type followed
\* by "\shell\" and the name for each name of the name path in order, and
\* the base path followed by "\shell" for the empty name path.
C18_FullPathFormat ==
    /\ resolved.pc = "returned" =>
        resolved.out =
            IF resolved.name_path = <<>>
            THEN get_base_path_str(resolved.entry_type) \o "\\shell"
            ELSE get_base_path_str(resolved.entry_type)
                    \o ShellAndNames(resolved.name_path)
    /\ get_full_path_str(Folder, <<>>) = "Directory\\shell"
    /\ get_full_path_str(Folder, <<"1", "2", "3">>)
            = "Directory\\shell\\1\\shell\\2\\shell\\3"

\* get_full_path has returned the path of the container of the entries of
\* the background of directories
C18_Witness ==
    /\ resolved.pc = "returned"
    /\ resolved.name_path = <<>>
    /\ resolved.out = "Directory\\Background\\shell"

----------------------------------------------------------------------------
(* Claims about a creation that fails on the way, and about the setters *)

\* the data of value vn of the key of h, Absent when the value is not there
RawValue(r, h, vn) == r[path(h)][vn]
\* the data of the default value of the command key, as an Option
RawCommand(r, h) ==
    IF KeyExists(r, path(h) \o <<"command">>)
          /\ HasValue(r, path(h) \o <<"command">>, "")
    THEN Some(r[path(h) \o <<"command">>][""])
    ELSE None
\* what set_position writes for a position
PositionData(p) ==
    IF p = Some(Top) THEN "Top" ELSE IF p = Some(Bottom) THEN "Bottom" ELSE Absent
\* the entry h after a creation with options o in which write k failed
PartlyCreated(r, h, o, k) ==
    /\ Exists(r, h)
    /\ RawCommand(r, h) = (IF k > 2 THEN o.command ELSE None)
    /\ (k <= 2 => ~KeyExists(r, path(h) \o <<"command">>))
    /\ RawValue(r, h, "Icon")
            = (IF k > 3 /\ o.icon # None THEN o.icon[1] ELSE Absent)
    /\ RawValue(r, h, "Position") = (IF k > 4 THEN PositionData(o.position) ELSE Absent)
    /\ RawValue(r, h, "Extended") = Absent

\* C21: when write k of a creation fails (2 command, 3 icon, 4 position,
\* 5 extended), the creation returns that error, the key of the entry
\* exists, the attributes before k have the values of the options, and no
\* attribute from k on is written.
C21_PartialCreationStays ==
    \A k \in 2..5, o \in SomeOptions \cup {DefaultOptions, FullOptions} :
        /\ \A nm \in Names, t \in ActivationType :
            LET h == CtxEntry(<<nm>>, t)
                d == new_with_options(reg, nm, t, o, k)
            IN  ~Exists(reg, h) =>
                    /\ d.res = Err(PermissionDenied)
                    /\ PartlyCreated(d.reg, h, o, k)
                    /\ \A q \in DOMAIN reg : d.reg[q] = reg[q]
        /\ \A h \in Handles, nm \in Names :
            LET c == ChildOf(h, nm)
                d == new_child_with_options(reg, h, nm, o, FALSE, k)
            IN  (Exists(reg, h) /\ ~Exists(reg, c)) =>
                    /\ d.res = Err(PermissionDenied)
                    /\ PartlyCreated(d.reg, c, o, k)

\* new_with_options has failed in set_position: the entry is there with
\* the command and the icon of the options and without a position
C21_Witness ==
    /\ last.op = "new_with_options"
    /\ last.res = Err(PermissionDenied)
    /\ last.before = 0
    /\ \E h \in AttrEntries :
        /\ Exists(reg, h)
        /\ RawCommand(reg, h) = Some("s1")
        /\ RawValue(reg, h, "Icon") = "s2"
        /\ RawValue(reg, h, "Position") = Absent
        /\ RawValue(reg, h, "Extended") = Absent

\* C22: children() does not panic: on every entry, in every registry, it
\* returns Ok or an error.
C22_ChildrenNeverPanics ==
    \A h \in Handles, fail \in BOOLEAN : children(reg, h, fail).tag \in {"Ok", "Err"}

\* C23: when rename(new_name) fails on an entry beside which an entry
\* named new_name exists, the renamed entry is not that other entry: what
\* is called on it afterwards (a getter, a setter, delete) neither reads
\* nor changes the key of the other entry.
C23_FailedRenameKeepsSibling ==
    \A h \in RenameHandles, new_name \in RenameNames :
        LET d == rename(reg, h, new_name, 0)
            sibling == RenamedTo(h, new_name)
        IN  (Exists(reg, h) /\ sibling # h /\ Exists(reg, sibling) /\ d.res.tag = "Err") =>
                /\ d.reg = reg
                /\ path(d.self) # path(sibling)
                /\ Exists(delete(d.reg, d.self, FALSE).reg, sibling)
                /\ RelTree(set_icon(d.reg, d.self, Some("s1"), FALSE).reg, sibling)
                        = RelTree(reg, sibling)

----------------------------------------------------------------------------
(* Claims about the Subcommands value of an entry with entries below it *)

\* the entry with key k has an entry right below it
HasChildEntry(r, k) ==
    \E q \in DOMAIN r : Len(q) = Len(k) + 2 /\ IsPrefix(k \o <<"shell">>, q)
\* every entry of r that has an entry below it has the Subcommands value
Marked(r) ==
    \A k \in DOMAIN r :
        (HasChildEntry(r, k) /\ IsEntryKey(k)) => r[k]["Subcommands"] = ""

\* C24: in every registry reached from the empty one by new, new_child,
\* the setters, rename and delete in any order, every entry that has an
\* entry below it has the Subcommands value; and no setter, whatever it is
\* given, takes the value away from such an entry.
C24_ParentsAreMarked ==
    /\ Marked(reg)
    /\ \A h \in MixTop :
        /\ \A c \in OptionOf(AttrStrings) : Marked(set_command(reg, h, c, FALSE).reg)
        /\ \A i \in OptionOf(AttrStrings) : Marked(set_icon(reg, h, i, FALSE).reg)
        /\ \A p \in OptionOf(MenuPosition) : Marked(set_position(reg, h, p, FALSE).reg)
        /\ \A e \in BOOLEAN : Marked(set_extended(reg, h, e, FALSE).reg)
        /\ \A sep \in OptionOf(Separator) : Marked(set_separator(reg, h, sep, FALSE).reg)

\* an entry with a command and an entry below it has been renamed, and it
\* has the value under its new name
C24_Witness ==
    /\ last.op = "rename"
    /\ last.res = Ok(Unit)
    /\ ~KeyExists(reg, path(CtxEntry(<<"a">>, Folder)))
    /\ KeyExists(reg, path(CtxEntry(<<"b">>, Folder)) \o <<"command">>)
    /\ HasChildEntry(reg, path(CtxEntry(<<"b">>, Folder)))
    /\ reg[path(CtxEntry(<<"b">>, Folder))]["Subcommands"] = ""

\* C25: when the other actor deletes the parent between the Subcommands
\* write of new_child and its create_subkey, new_child returns an error
\* and has created nothing; and at no time is there an entry below an
\* entry that lacks the Subcommands value.
C25_DeletedParentFailsNewChild ==
    /\ Marked(reg)
    /\ (calls.pc = "done" /\ calls.raced) =>
            /\ calls.res[1].tag = "Err"
            /\ ~calls.created

----------------------------------------------------------------------------
(* Claims about what a setter leaves alone *)

\* C26: on an entry that is there, a setter that is asked to unset what
\* is not set (set_command(None) without a command key, set_icon(None),
\* set_position(None), set_extended(false), set_separator(None) without
\* the value or values) returns Ok and leaves the registry as it is; and
\* unsetting twice leaves the registry and the result of unsetting once.
C26_UnsetIsIdempotent ==
    \A h \in AttrEntries :
        Exists(reg, h) =>
            LET c == set_command(reg, h, None, FALSE)
                i == set_icon(reg, h, None, FALSE)
                p == set_position(reg, h, None, FALSE)
                e == set_extended(reg, h, FALSE, FALSE)
                s == set_separator(reg, h, None, FALSE)
            IN  /\ ~KeyExists(reg, path(h) \o <<"command">>) => c = Done(reg, Ok(Unit))
                /\ RawValue(reg, h, "Icon") = Absent => i = Done(reg, Ok(Unit))
                /\ RawValue(reg, h, "Position") = Absent => p = Done(reg, Ok(Unit))
                /\ RawValue(reg, h, "Extended") = Absent => e = Done(reg, Ok(Unit))
                /\ (RawValue(reg, h, "SeparatorBefore") = Absent
                        /\ RawValue(reg, h, "SeparatorAfter") = Absent)
                     => s = Done(reg, Ok(Unit))
                /\ set_command(c.reg, h, None, FALSE) = c
                /\ set_icon(i.reg, h, None, FALSE) = i
                /\ set_position(p.reg, h, None, FALSE) = p
                /\ set_extended(e.reg, h, FALSE, FALSE) = e
                /\ set_separator(s.reg, h, None, FALSE) = s

\* set_separator(None) has returned Ok on an entry that has a command and
\* an icon and has no position, no Extended and no separator value
C26_Witness ==
    /\ last.op = "set_separator"
    /\ last.res = Ok(Unit)
    /\ \E h \in AttrEntries :
        /\ Exists(reg, h)
        /\ RawCommand(reg, h) # None
        /\ RawValue(reg, h, "Icon") # Absent
        /\ RawValue(reg, h, "Position") = Absent
        /\ RawValue(reg, h, "Extended") = Absent
        /\ RawValue(reg, h, "SeparatorBefore") = Absent
        /\ RawValue(reg, h, "SeparatorAfter") = Absent

\* the entries the setters are called on: an entry and an entry below it
FrameEntries == MixTop \cup {ChildOf(h, "a") : h \in MixTop}

\* r2 is r1 but for the keys in `keys` and the values in `values` of the
\* key of h
OnlyChanged(r1, r2, h, keys, values) ==
    /\ DOMAIN r1 \ keys = DOMAIN r2 \ keys
    /\ \A k \in DOMAIN r1 \ keys :
        \A vn \in ValueNames : (k = path(h) /\ vn \in values) \/ r1[k][vn] = r2[k][vn]

\* C27: a setter that returns Ok has changed nothing but what it sets:
\* set_command the command key of the entry, set_icon its Icon value,
\* set_position its Position value, set_extended its Extended value and
\* set_separator its two separator values.  Every other value of the
\* entry (Subcommands among them), the entries below it and every other
\* key are as they were.
C27_SetterChangesItsAttributeOnly ==
    \A h \in FrameEntries :
        /\ \A c \in OptionOf(AttrStrings) :
            LET d == set_command(reg, h, c, FALSE) IN
            d.res = Ok(Unit) =>
                OnlyChanged(reg, d.reg, h, {path(h) \o <<"command">>}, {})
        /\ \A i \in OptionOf(AttrStrings) :
            LET d == set_icon(reg, h, i, FALSE) IN
            d.res = Ok(Unit) => OnlyChanged(reg, d.reg, h, {}, {"Icon"})
        /\ \A p \in OptionOf(MenuPosition) :
            LET d == set_position(reg, h, p, FALSE) IN
            d.res = Ok(Unit) => OnlyChanged(reg, d.reg, h, {}, {"Position"})
        /\ \A e \in BOOLEAN :
            LET d == set_extended(reg, h, e, FALSE) IN
            d.res = Ok(Unit) => OnlyChanged(reg, d.reg, h, {}, {"Extended"})
        /\ \A sep \in OptionOf(Separator) :
            LET d == set_separator(reg, h, sep, FALSE) IN
            d.res = Ok(Unit) =>
                OnlyChanged(reg, d.reg, h, {}, {"SeparatorBefore", "SeparatorAfter"})

\* set_command has returned Ok on an entry that has an entry below it: the
\* command key is there, and so are the Subcommands value and the child
C27_Witness ==
    /\ last.op = "set_command"
    /\ last.res = Ok(Unit)
    /\ \E h \in MixTop :
        /\ RawCommand(reg, h) = Some("s1")
        /\ RawValue(reg, h, "Subcommands") = ""
        /\ Exists(reg, ChildOf(h, "a"))

====
